---- MODULE Spec2Model ----
(***************************************************************************)
(* Model of the peak-detection and elution-volume engine of lc-parser     *)
(* (src/src/LCParser.py, src/src/utils.py, src/main.py).                   *)
(*                                                                         *)
(* Numbers are integers; numpy's nan is the distinguished value NaN and    *)
(* every arithmetic or comparison operator below follows IEEE semantics    *)
(* for it.  numpy arrays are functions over 0..n-1, so indices read as in  *)
(* the Python source.  The Savitzky-Golay filter is computed exactly and   *)
(* stored multiplied by SavgolDen (its common denominator).                *)
(***************************************************************************)
EXTENDS Integers, Sequences, FiniteSets, TLC

MaxLen == 4
MaxHeight == 1

\* ------------------------------------------------------------------ floats
NaN == 0 - 1000000

isnan(x) == x = NaN

add(a, b) == IF isnan(a) \/ isnan(b) THEN NaN ELSE a + b

sub(a, b) == IF isnan(a) \/ isnan(b) THEN NaN ELSE a - b

mul(a, b) == IF isnan(a) \/ isnan(b) THEN NaN ELSE a * b

gt(a, b) == ~isnan(a) /\ ~isnan(b) /\ a > b

lt(a, b) == ~isnan(a) /\ ~isnan(b) /\ a < b

le(a, b) == ~isnan(a) /\ ~isnan(b) /\ a <= b

\* Python's builtin max(a, b): b replaces a only when b > a
max(a, b) == IF gt(b, a) THEN b ELSE a

\* ------------------------------------------------------------------ arrays
len(a) == Cardinality(DOMAIN a)

array(s) == [i \in 0..(Len(s) - 1) |-> s[i + 1]]

empty == array(<< >>)

\* a[i] with Python's wrap-around of negative indices
index(a, i) == IF i < 0 THEN a[len(a) + i] ELSE a[i]

contains(a, x) == \E i \in DOMAIN a : a[i] = x

\* np.asarray(x).ravel() of a scalar
ravel(x) == [i \in {0} |-> x]

\* np.delete(arr, obj) with axis=None on a 1-d array
delete(arr, obj) ==
    [i \in 0..(len(arr) - 2) |-> IF i < obj THEN arr[i] ELSE arr[i + 1]]

\* ----------------------------------------------------------------- parsing
NumLo == 0 - 1
NumHi == 11

float(tok) == CHOOSE n \in NumLo..NumHi : ToString(n) = tok

ParseField(tok) == IF tok = "n.a." THEN NaN ELSE float(tok)

parse_raw_chromatogram_data(rows) ==
    [i \in 0..(len(rows) - 1) |->
        << ParseField(rows[i][1]), ParseField(rows[i][2]), ParseField(rows[i][3]) >>]

column(raw, c) == [i \in DOMAIN raw |-> raw[i][c]]


\* ---------------------------------------------------------- peak detection
\* is_peak with ties accepted on both sides
is_peak_ties(values, height) ==
    [t \in DOMAIN values |->
        /\ (t = 0 \/ le(values[t - 1], values[t]))
        /\ (t = len(values) - 1 \/ le(values[t + 1], values[t]))
        /\ gt(values[t], height)]

\* is_peak with a tie accepted against the right neighbour
is_peak_right_tie(values, height) ==
    [t \in DOMAIN values |->
        /\ (t = 0 \/ gt(values[t], values[t - 1]))
        /\ (t = len(values) - 1 \/ le(values[t + 1], values[t]))
        /\ gt(values[t], height)]

\* line 108: strict local maxima above height; the two ends are padded with True
is_peak(values, height) ==
    [t \in DOMAIN values |->
        /\ (t = 0 \/ gt(values[t], values[t - 1]))
        /\ (t = len(values) - 1 \/ gt(values[t], values[t + 1]))
        /\ gt(values[t], height)]

RECURSIVE where_from(_, _)
where_from(mask, t) ==
    IF t >= len(mask) THEN << >>
    ELSE (IF mask[t] THEN << t >> ELSE << >>) \o where_from(mask, t + 1)

\* np.where(mask)[0]: the flagged indices in ascending order
where(mask) == array(where_from(mask, 0))

\* the first bound is left in
drop_first_bound_keep(values, peak_indices) == peak_indices

\* lines 112-113
drop_first_bound(values, peak_indices) ==
    IF contains(peak_indices, 0) THEN delete(peak_indices, 0) ELSE peak_indices

\* the last bound is left in
drop_last_bound_keep(values, peak_indices) == peak_indices

\* lines 114-115: np.delete is applied to the scalar len(values)-1
drop_last_bound(values, peak_indices) ==
    IF contains(peak_indices, len(values) - 1)
    THEN delete(ravel(len(values) - 1), 0)
    ELSE peak_indices

\* lines 124-131: the leftward descent; thresh starts as the content of np.empty
RECURSIVE left_scan(_, _, _, _)
left_scan(values, left, min_left, thresh) ==
    IF left >= 0 /\ le(values[left], min_left)
    THEN IF lt(values[left], min_left)
         THEN left_scan(values, left - 1, values[left], left)
         ELSE left_scan(values, left - 1, min_left, thresh)
    ELSE [min |-> min_left, thresh |-> thresh]

\* lines 133-140: the rightward descent
RECURSIVE right_scan(_, _, _, _)
right_scan(values, right, min_right, thresh) ==
    IF right <= len(values) - 1 /\ le(values[right], min_right)
    THEN IF lt(values[right], min_right)
         THEN right_scan(values, right + 1, values[right], right)
         ELSE right_scan(values, right + 1, min_right, thresh)
    ELSE [min |-> min_right, thresh |-> thresh]

\* the height taken over the deeper valley
peak_height_min(peak_value, min_left, min_right) ==
    sub(peak_value, IF lt(min_left, min_right) THEN min_left ELSE min_right)

\* line 143
peak_height(peak_value, min_left, min_right) ==
    sub(peak_value, max(min_left, min_right))

\* LCParser.__findpeaks__; uninit is the content np.empty left in the
\* threshold arrays
findpeaks(values, height, uninit) ==
    LET flagged == where(is_peak(values, height))
        peak_indices == drop_last_bound(values, drop_first_bound(values, flagged))
        l(i) == left_scan(values, peak_indices[i], values[peak_indices[i]], uninit)
        r(i) == right_scan(values, peak_indices[i], values[peak_indices[i]], uninit)
    IN  [left_thresh  |-> [i \in DOMAIN peak_indices |-> l(i).thresh],
         right_thresh |-> [i \in DOMAIN peak_indices |-> r(i).thresh],
         heights      |-> [i \in DOMAIN peak_indices |->
                              peak_height(values[peak_indices[i]], l(i).min, r(i).min)],
         peak_indices |-> peak_indices]

\* --------------------------------------------------------------- smoothing
window == 11
halflen == window \div 2

RECURSIVE fsum(_, _)
fsum(f, k) == IF k < 0 THEN 0 ELSE add(fsum(f, k - 1), f[k])

\* sum of squared offsets of a window: denominator of the least-squares slope
SavgolDen == fsum([k \in 0..(window - 1) |-> (k - halflen) * (k - halflen)], window - 1)

\* SavgolDen times the degree-1 least-squares fit of x[start..start+window-1],
\* evaluated at window position p
linear_fit(x, start, p) ==
    add(mul(SavgolDen \div window,
            fsum([k \in 0..(window - 1) |-> x[start + k]], window - 1)),
        mul(p - halflen,
            fsum([k \in 0..(window - 1) |-> mul(k - halflen, x[start + k])], window - 1)))

\* scipy.signal.savgol_filter(x, window, polyorder=1), mode='interp', times
\* SavgolDen:
\* the window centre inside, the edge windows' fit at the two ends
savgol_filter(x) ==
    [i \in DOMAIN x |->
        IF i < halflen THEN linear_fit(x, 0, i)
        ELSE IF i > len(x) - 1 - halflen
             THEN linear_fit(x, len(x) - window, i - (len(x) - window))
             ELSE linear_fit(x, i - halflen, halflen)]

\* LCParser.filter_peaks
filter_peaks(self) == savgol_filter(self.values)

\* ------------------------------------------------------------- integration
\* values[left:right] of numpy, as the list of indices it covers
slice_indices(values, left, right) ==
    LET n  == len(values)
        lo == IF left < 0 THEN (IF left + n < 0 THEN 0 ELSE left + n)
              ELSE (IF left > n THEN n ELSE left)
        hi == IF right < 0 THEN (IF right + n < 0 THEN 0 ELSE right + n)
              ELSE (IF right > n THEN n ELSE right)
    IN  [idx \in 0..(hi - lo - 1) |-> lo + idx]

\* the term with the sample clamped from above instead of from below
riemann_term_min(self, left, idx, height) ==
    mul(IF lt(height, 0) THEN height ELSE 0,
        sub(index(self.times, left + idx), index(self.times, left + idx - 1)))

\* line 178: one term of the Riemann sum
riemann_term(self, left, idx, height) ==
    mul(max(height, 0),
        sub(index(self.times, left + idx), index(self.times, left + idx - 1)))

\* lines 175-178
peak_area(self, left, right) ==
    LET sl == slice_indices(self.values, left, right)
    IN  fsum([idx \in DOMAIN sl |-> riemann_term(self, left, idx, self.values[sl[idx]])],
             len(sl) - 1)

\* lines 174-179: the sum of the peaks' areas
total_area(self, peak_data) ==
    fsum([i \in DOMAIN peak_data.left_thresh |->
             peak_area(self, peak_data.left_thresh[i], peak_data.right_thresh[i])],
         len(peak_data.left_thresh) - 1)

\* the integration reads the smoothed series once there is one
elution_volume_smoothed(self, peak_data) ==
    total_area([self EXCEPT !.values = IF self.smoothed_values = empty
                                        THEN self.values
                                        ELSE self.smoothed_values],
               peak_data)

\* LCParser.elution_volume
elution_volume(self, peak_data) == total_area(self, peak_data)

\* ------------------------------------------------------------------ inputs
\* tokens of the time and value columns of the report's data block
TimeTokens == {"0", "1", "n.a."}
ValueTokens == {"-1", "1", "2"}

nondecreasing(a) ==
    \A i, j \in DOMAIN a : (i < j /\ ~isnan(a[i]) /\ ~isnan(a[j])) => a[i] <= a[j]

\* short reports: every series of value tokens, every series of time tokens
\* whose readable entries do not decrease
ShortRows ==
    UNION {
        { [i \in 0..(n - 1) |-> << tt[i], "n.a.", vt[i] >>] :
            tt \in { t \in [0..(n - 1) -> TimeTokens] :
                        nondecreasing([i \in 0..(n - 1) |-> ParseField(t[i])]) },
            vt \in [0..(n - 1) -> ValueTokens] }
        : n \in 1..MaxLen }

\* spec.md section 8, Scenario A / Scenario C
ScenarioValues == array(<< 0, 0, 1, 3, 1, 0, 0, 3, 5, 3, 0, 0 >>)

\* reports long enough for the smoothing window, sampled at times 0, 1, 2, ...
LongValues ==
    { ScenarioValues,
      array(<< 1, 0, 0, 0, 0, 2, 4, 2, 0, 0, 0, 0 >>),
      array(<< 0, 0, 0, 0, 2, 4, 2, 0, 0, 0, 0, 1 >>),
      array(<< 0, 1, 2, 3, 4, 5, 6, 7, 8, 9, 10, 11 >>),
      array(<< 0, 0, 3, 0, 0, 0, 2, 2, 0, 0, 0 >>),
      array(<< 2, 0, 0, 0, 0, 5, 0, 0, 0, 0, 1 >>) }

LongRows ==
    { [i \in DOMAIN v |-> << ToString(i), "n.a.", ToString(v[i]) >>] : v \in LongValues }

Rows == ShortRows \cup LongRows

Heights == 0..MaxHeight

\* what np.empty may hold where the loops never write
Uninit == {0 - 7, 0, 99}

\* ------------------------------------------------------------- the program
VARIABLES
    raw_data,         \* LCParser.raw_data: rows of [time, step, value]
    times,            \* LCParser.times
    values,           \* LCParser.values
    smoothed_values,  \* LCParser.smoothed_values; the empty array is None
    peak_data,        \* run(): the tuple the last successful peaks() returned
    args,             \* the arguments of that peaks() call; returned: there was one
    volume,           \* run(): what elution_volume returned, 0 before that
    pc,               \* the last method the caller invoked
    outcome           \* how it ended: "ok" or the exception raised

vars == << raw_data, times, values, smoothed_values, peak_data, args, volume,
           pc, outcome >>

Self == [times |-> times, values |-> values, smoothed_values |-> smoothed_values]

NoPeaks ==
    [left_thresh |-> empty, right_thresh |-> empty, heights |-> empty,
     peak_indices |-> empty]

\* LCParser.__init__ and parse(), from the data block on
Init ==
    \E rows \in Rows :
        /\ raw_data = parse_raw_chromatogram_data(rows)
        /\ times = column(raw_data, 1)
        /\ values = column(raw_data, 3)
        /\ smoothed_values = empty
        /\ peak_data = NoPeaks
        /\ args = [height |-> 0, apply_smoothing |-> FALSE, returned |-> FALSE]
        /\ volume = 0
        /\ pc = "init"
        /\ outcome = "ok"

\* peaks(height, apply_smoothing=False)
PeaksRaw ==
    \E height \in Heights, uninit \in Uninit :
        /\ peak_data' = findpeaks(values, height, uninit)
        /\ args' = [height |-> height, apply_smoothing |-> FALSE, returned |-> TRUE]
        /\ volume' = 0
        /\ pc' = "peaks"
        /\ outcome' = "ok"
        /\ UNCHANGED << raw_data, times, values, smoothed_values >>

\* peaks(height, apply_smoothing=True); the smoothed series is SavgolDen times
\* the filter's output, so the height it is compared with is scaled alike
PeaksSmoothed ==
    \E height \in Heights, uninit \in Uninit :
        /\ window <= len(values)
        /\ smoothed_values' = filter_peaks(Self)
        /\ peak_data' = findpeaks(smoothed_values', SavgolDen * height, uninit)
        /\ args' = [height |-> height, apply_smoothing |-> TRUE, returned |-> TRUE]
        /\ volume' = 0
        /\ pc' = "peaks"
        /\ outcome' = "ok"
        /\ UNCHANGED << raw_data, times, values >>

\* peaks(apply_smoothing=True) on a series shorter than the window:
\* savgol_filter raises before anything is assigned
PeaksRaises ==
    /\ window > len(values)
    /\ pc' = "peaks"
    /\ outcome' = "ValueError"
    /\ UNCHANGED << raw_data, times, values, smoothed_values, peak_data, args,
                    volume >>

\* elution_volume(peak_data) on the tuple peaks() returned (main.py:9-11)
ElutionVolume ==
    /\ pc = "peaks"
    /\ outcome = "ok"
    /\ volume' = elution_volume(Self, peak_data)
    /\ pc' = "elution_volume"
    /\ outcome' = "ok"
    /\ UNCHANGED << raw_data, times, values, smoothed_values, peak_data, args >>

Next == PeaksRaw \/ PeaksSmoothed \/ PeaksRaises \/ ElutionVolume

Spec == Init /\ [][Next]_vars

\* ------------------------------------------------------------- properties
\* the series and threshold the last peaks() call handed to __findpeaks__
DetectInput == IF args.apply_smoothing THEN smoothed_values ELSE values

DetectHeight == IF args.apply_smoothing THEN SavgolDen * args.height ELSE args.height

N == len(DetectInput)

PeakSet == { peak_data.peak_indices[i] : i \in DOMAIN peak_data.peak_indices }

NoMissing(a) == \A i \in DOMAIN a : ~isnan(a[i])

Interior == 1..(N - 2)

StrictMax(i) ==
    /\ DetectInput[i] > DetectInput[i - 1]
    /\ DetectInput[i] > DetectInput[i + 1]
    /\ DetectInput[i] > DetectHeight

\* the local-maximum test flags the last index
LastFlagged ==
    /\ N >= 2
    /\ DetectInput[N - 1] > DetectInput[N - 2]
    /\ DetectInput[N - 1] > DetectHeight

\* an interior index the tie-accepting rule would take and the strict one not
TieCandidate(i) ==
    /\ DetectInput[i] >= DetectInput[i - 1]
    /\ DetectInput[i] >= DetectInput[i + 1]
    /\ DetectInput[i] > DetectHeight
    /\ ~StrictMax(i)

\* C1 amended: the returned peakIndex values are exactly the interior indices
\* whose sample is strictly greater than both neighbours and > minHeight, and
\* none at all when the last index is itself flagged
C1_StrictCandidates ==
    (args.returned /\ NoMissing(DetectInput)) =>
        PeakSet = IF LastFlagged THEN {} ELSE { i \in Interior : StrictMax(i) }

C1_Witness ==
    /\ args.returned
    /\ pc = "peaks"
    /\ PeakSet # {}
    /\ \E i \in Interior : TieCandidate(i)

\* C1 as stated: the returned peakIndex values are exactly the interior indices
\* whose sample is >= both neighbours and > minHeight (ties accepted)
C1_CandidatesWithTies ==
    (args.returned /\ NoMissing(DetectInput)) =>
        PeakSet = { i \in Interior :
                      /\ DetectInput[i] >= DetectInput[i - 1]
                      /\ DetectInput[i] >= DetectInput[i + 1]
                      /\ DetectInput[i] > DetectHeight }

\* C2: every returned record has 0 <= leftThreshold <= peakIndex <=
\* rightThreshold <= N-1, whatever np.empty left in the threshold arrays
C2_ThresholdContainment ==
    (args.returned /\ NoMissing(DetectInput)) =>
        \A i \in DOMAIN peak_data.peak_indices :
            /\ 0 <= peak_data.left_thresh[i]
            /\ peak_data.left_thresh[i] <= peak_data.peak_indices[i]
            /\ peak_data.peak_indices[i] <= peak_data.right_thresh[i]
            /\ peak_data.right_thresh[i] <= N - 1

C2_Witness ==
    /\ args.returned
    /\ pc = "peaks"
    /\ len(peak_data.peak_indices) >= 2

\* C3: with non-decreasing times without missing entries, the volume of the
\* peaks detected on the values series is never negative
C3_VolumeNonNegative ==
    (/\ pc = "elution_volume"
     /\ ~args.apply_smoothing
     /\ NoMissing(times)
     /\ nondecreasing(times)) => volume >= 0

ScenarioC ==
    /\ values = ScenarioValues
    /\ times = [i \in 0..11 |-> i]
    /\ pc = "elution_volume"
    /\ ~args.apply_smoothing
    /\ args.height = 0

\* C4 as stated: Scenario C integrates to exactly 15.0
C4_ScenarioC_Fifteen == ScenarioC => volume = 15

\* C4 amended: Scenario C integrates to exactly 16.0, over the spans 1-5 and
\* 6-10 of the peaks at 3 and 8
C4_ScenarioC_Sixteen ==
    ScenarioC =>
        /\ volume = 16
        /\ peak_data.peak_indices = array(<< 3, 8 >>)
        /\ peak_data.left_thresh = array(<< 1, 6 >>)
        /\ peak_data.right_thresh = array(<< 5, 10 >>)

C4_Witness == ScenarioC /\ volume > 0

\* a term of some peak's span reads a missing time
UsesMissingTime ==
    \E i \in DOMAIN peak_data.left_thresh :
        \E idx \in peak_data.left_thresh[i]..(peak_data.right_thresh[i] - 1) :
            isnan(index(times, idx)) \/ isnan(index(times, idx - 1))

\* C5: elution_volume over a span that reads a missing time ends in a
\* MissingTimeData error and never returns a sum
C5_MissingTimeRejected ==
    (pc = "elution_volume" /\ UsesMissingTime) => outcome = "MissingTimeData"

\* C6: no returned record has peakIndex 0 or N-1
C6_NoBoundaryPeaks ==
    args.returned => (0 \notin PeakSet /\ (N - 1) \notin PeakSet)

C6_Witness ==
    /\ args.returned
    /\ pc = "peaks"
    /\ N >= 3
    /\ DetectInput[0] > DetectInput[1]
    /\ DetectInput[0] > DetectHeight
    /\ PeakSet # {}

\* C7: height = values[peakIndex] - max(values[leftThreshold],
\* values[rightThreshold]) and height >= 0
C7_HeightFormula ==
    (args.returned /\ NoMissing(DetectInput)) =>
        \A i \in DOMAIN peak_data.peak_indices :
            LET minLeft  == DetectInput[peak_data.left_thresh[i]]
                minRight == DetectInput[peak_data.right_thresh[i]]
                valley   == IF minLeft >= minRight THEN minLeft ELSE minRight
            IN  /\ peak_data.heights[i] = DetectInput[peak_data.peak_indices[i]] - valley
                /\ peak_data.heights[i] >= 0

C7_Witness ==
    /\ args.returned
    /\ pc = "peaks"
    /\ \E i \in DOMAIN peak_data.peak_indices :
          DetectInput[peak_data.left_thresh[i]] # DetectInput[peak_data.right_thresh[i]]

RECURSIVE SetSum(_, _)
SetSum(S, f) ==
    IF S = {} THEN 0
    ELSE LET x == CHOOSE y \in S : TRUE IN add(f[x], SetSum(S \ {x}, f))

\* the right-sided Riemann sum of the loaded values over the spans of peak_data
RawRiemann ==
    LET n == len(values)
        term == [idx \in 0..(n - 1) |->
                    mul(IF values[idx] > 0 THEN values[idx] ELSE 0,
                        sub(times[idx], times[(idx + n - 1) % n]))]
        area == [i \in DOMAIN peak_data.left_thresh |->
                    SetSum(peak_data.left_thresh[i]..(peak_data.right_thresh[i] - 1), term)]
    IN  SetSum(DOMAIN peak_data.left_thresh, area)

\* C8: the volume is the Riemann sum of the raw values and times over the
\* thresholds whatever smoothed_values holds, and no call changes values or times
C8_PureOfRawSeries ==
    /\ [](pc = "elution_volume" => volume = RawRiemann)
    /\ [][values' = values /\ times' = times]_vars

C8_Witness ==
    /\ pc = "elution_volume"
    /\ args.apply_smoothing
    /\ smoothed_values # empty
    /\ PeakSet # {}
    /\ volume # 0
    /\ ~isnan(volume)

StrictlyIncreasing(a) == \A i \in DOMAIN a : i > 0 => a[i] > a[i - 1]

\* C9: a strictly increasing series yields no peaks and a volume of exactly 0
C9_IncreasingEmpty ==
    (args.returned /\ NoMissing(DetectInput) /\ StrictlyIncreasing(DetectInput)) =>
        /\ PeakSet = {}
        /\ pc = "elution_volume" => volume = 0

C9_Witness ==
    /\ args.returned
    /\ pc = "elution_volume"
    /\ N >= 3
    /\ StrictlyIncreasing(DetectInput)
    /\ DetectInput[N - 1] > DetectHeight
    /\ volume = 0

\* C10: every interior strict local maximum above minHeight is returned, in
\* ascending order, also when a boundary index was flagged
C10_InteriorPeaksKept ==
    (args.returned /\ NoMissing(DetectInput)) =>
        /\ \A i \in Interior : StrictMax(i) => i \in PeakSet
        /\ \A i, j \in DOMAIN peak_data.peak_indices :
              i < j => peak_data.peak_indices[i] < peak_data.peak_indices[j]

====
